---- MODULE Spec2Model ----
(***************************************************************************)
(* A model of the micro_taskman cooperative scheduler: the periodic task   *)
(* table, the one-shot timer table, the millisecond clock and the          *)
(* non-blocking delay helper (taskman.c / taskman.h).                      *)
(*                                                                         *)
(* Program state: tasks, timers, millis, taskExecuted (the static local of *)
(* tmUpdate) and ts (a caller's timestamp variable handed to tmDelay_ms).  *)
(* Observation state (not in the program): last, ticks, taskAge, tinfo,    *)
(* tsAge, addRun, nops, marks, seen.  Callbacks are opaque procedures,     *)
(* modelled as doing nothing but being recorded in last.calls.             *)
(*                                                                         *)
(* Every entry point is one action.  tmUpdate and tmTimerStartOnce are     *)
(* modelled a second time, statement by statement, for the runs in which   *)
(* the tick interrupt preempts them; coop is the position of the           *)
(* cooperative context inside such a call.                                 *)
(***************************************************************************)
EXTENDS Integers, Sequences, FiniteSets, TLC

\* ------------------------------------------------------------ sizes
\* Table capacities.  taskman.h ships MAX_TASKS 10 and MAX_TIMERS 5 and allows
\* any value up to 255; the model is the program configured with 2 and 1.
MAX_TASKS == 2
MAX_TIMERS == 1
\* Width of the clock counter in bits (uint32_t in the source, scaled down so
\* that the counter wraps within the explored runs).
ClockBits == 2
\* Largest period and delay passed in, and the number of Tick calls explored
\* on the task side and, beyond one full turn of the clock, on the timer side.
MaxPeriod == 2
MaxDelay == 3
TaskTicks == 5
ExtraTicks == 4
\* Number of operations explored when all operations are mixed.
MaxOps == 4

Modulus == 2 ^ ClockBits
MaxTicks == Modulus + ExtraTicks

\* The null function pointer.
NULL == 0

TaskIdx == 0 .. (MAX_TASKS - 1)
TimerIdx == 0 .. (MAX_TIMERS - 1)
\* Callback identities: enough distinct ones to fill a table and one more.
Funcs == 1 .. MAX_TASKS
TimerFuncs == 1 .. (MAX_TIMERS + 1)
Periods == 0 .. MaxPeriod
\* Delays are uint32_t values: below the modulus.
Delays == 0 .. (IF MaxDelay < Modulus THEN MaxDelay ELSE Modulus - 1)

VARIABLES tasks, timers, millis, taskExecuted, ts, coop,
          last, ticks, taskAge, tinfo, tsAge, addRun, nops, marks, seen

vars == <<tasks, timers, millis, taskExecuted, ts, coop,
          last, ticks, taskAge, tinfo, tsAge, addRun, nops, marks, seen>>

\* ------------------------------------------------------------ arithmetic
\* A subtraction that is not reduced modulo the counter's range.
Sub32_NoWrap(a, b) == a - b

\* uint32_t subtraction a - b, at the model's clock width.
Sub32(a, b) == (a - b) % Modulus

\* uint32_t increment (millis++).
Inc32(a) == (a + 1) % Modulus

Max(a, b) == IF a >= b THEN a ELSE b

\* ------------------------------------------------------------ observations
\* The record of the operation that ran last: its name, its callback
\* argument, its result, the callbacks it invoked in order, the number of idle-hook calls
\* and the clock value the invoked one-shot callbacks could read.
Obs(op, f, ret, calls, idle, now) ==
    [op |-> op, f |-> f, ret |-> ret,
     calls |-> calls, idle |-> idle, now |-> now]

\* What is known about a timer slot since its start_time was last written:
\* age = Tick calls since then, fired = invocations of its callback since
\* then, rearmAge = age at the latest tmTimerStartOnce that found the slot
\* active, early = that call came before as many ticks as the delay it
\* replaced had passed, clean = installed in a free slot by tmTimerStartOnce
\* and not touched by tmTimerStartOnce or tmTimerDelete since.  The record is
\* kept while the slot is active or clean and is NoInfo otherwise.
NoInfo ==
    [age |-> 0, fired |-> 0, rearmAge |-> 0, early |-> FALSE, clean |-> FALSE]

\* The cooperative context outside any statement-by-statement call: pc is the
\* statement it stands at, i the loop index, f and d the arguments of
\* the call and calls the slots whose callback the current pass has invoked.
Outside == [pc |-> "idle", i |-> 0, f |-> NULL, d |-> 0, calls |-> <<>>]

\* What has been seen in a run with preemption: owed[i] = tmTick has marked
\* task slot i ready and its callback has not been started since, late[i] =
\* the number of tmUpdate passes that have returned since while it was owed,
\* fired = invocations of the callback of the latest statement-by-statement
\* tmTimerStartOnce since that call began, early = one of them came before
\* the call had recorded the clock.
NoneSeen ==
    [owed |-> [i \in TaskIdx |-> FALSE], late |-> [i \in TaskIdx |-> 0],
     fired |-> 0, early |-> FALSE]

\* ------------------------------------------------------------ initial state
\* Static storage is zero-initialised.
EmptyTask == [taskFunc |-> NULL, period_ms |-> 0, delay_ms |-> 0, isReady |-> 0]
EmptyTimer == [active |-> 0, start_time |-> 0, delay |-> 0, callback |-> NULL]

Init ==
    /\ tasks = [i \in TaskIdx |-> EmptyTask]
    /\ timers = [i \in TimerIdx |-> EmptyTimer]
    /\ millis = 0
    /\ taskExecuted = 0
    /\ ts = 0
    /\ last = Obs("init", NULL, 0, <<>>, 0, 0)
    /\ ticks = 0
    /\ taskAge = [i \in TaskIdx |-> 0]
    /\ tinfo = [i \in TimerIdx |-> NoInfo]
    /\ tsAge = 0
    /\ addRun = 0
    /\ nops = 0
    /\ marks = [i \in TaskIdx |-> 0]
    /\ coop = Outside
    /\ seen = NoneSeen

\* ------------------------------------------------------------ task table
\* A scan that stops one slot short of the table's end.
FirstFreeTask_Short(t, i) ==
    LET S == {j \in TaskIdx : j >= i /\ j < MAX_TASKS - 1 /\ t[j].taskFunc = NULL}
    IN IF S = {} THEN -1 ELSE CHOOSE j \in S : \A k \in S : j <= k

\* tmAddTask's scan: the first slot from i on whose taskFunc is 0, or -1.
RECURSIVE FirstFreeTask(_, _)
FirstFreeTask(t, i) ==
    IF i = MAX_TASKS THEN -1
    ELSE IF t[i].taskFunc = NULL THEN i
    ELSE FirstFreeTask(t, i + 1)

\* A scan that returns the last matching slot instead of the first.
FindTask_Last(t, func, i) ==
    LET S == {j \in TaskIdx : j >= i /\ t[j].taskFunc = func}
    IN IF S = {} THEN -1 ELSE CHOOSE j \in S : \A k \in S : j >= k

\* The scan of tmUpdateTask and tmDeleteTask: the first slot from i on whose
\* taskFunc equals func (the source compares pointers only), or -1.
RECURSIVE FindTask(_, _, _)
FindTask(t, func, i) ==
    IF i = MAX_TASKS THEN -1
    ELSE IF t[i].taskFunc = func THEN i
    ELSE FindTask(t, func, i + 1)

\* A registration that leaves the countdown at zero.
NewTask_ZeroCountdown(func, period_ms) ==
    [taskFunc |-> func, period_ms |-> period_ms, delay_ms |-> 0, isReady |-> 0]

\* The slot tmAddTask writes.
NewTask(func, period_ms) ==
    [taskFunc |-> func, period_ms |-> period_ms,
     delay_ms |-> period_ms, isReady |-> 0]

\* An update that lets the running countdown finish.
UpdatedTask_KeepsCountdown(s, period_ms) ==
    [s EXCEPT !.period_ms = period_ms, !.isReady = 0]

\* The slot tmUpdateTask leaves behind.
UpdatedTask(s, period_ms) ==
    [s EXCEPT !.period_ms = period_ms, !.delay_ms = period_ms, !.isReady = 0]

\* The slot tmDeleteTask leaves behind.
DeletedTask(s) == [s EXCEPT !.taskFunc = NULL]

\* Observation: the number of tmAddTask calls so far, as long as the whole
\* history is at most MAX_TASKS tmAddTask calls with distinct non-null
\* callbacks and then one more tmAddTask call; -1 otherwise.
NextAddRun(func) ==
    IF \/ /\ addRun >= 0
          /\ addRun < MAX_TASKS
          /\ func # NULL
          /\ \A i \in TaskIdx : tasks[i].taskFunc # func
       \/ addRun = MAX_TASKS
    THEN addRun + 1
    ELSE -1

tmAddTask(func, period_ms) ==
    LET i == FirstFreeTask(tasks, 0) IN
    /\ tasks' = IF i >= 0 THEN [tasks EXCEPT ![i] = NewTask(func, period_ms)]
                ELSE tasks
    /\ taskAge' = IF i >= 0 THEN [taskAge EXCEPT ![i] = 0] ELSE taskAge
    /\ last' = Obs("AddTask", func, i, <<>>, 0, millis)
    /\ addRun' = NextAddRun(func)
    /\ marks' = IF i >= 0 THEN [marks EXCEPT ![i] = 0] ELSE marks
    /\ UNCHANGED <<timers, millis, taskExecuted, ts, ticks, tinfo, tsAge>>

\* Observation: marks[i] = k > 0 when the ready flag of occupied slot i
\* stands for k expiries of its countdown (2 for two or more), -1 when
\* tmUpdateTask has cleared a ready flag that no pass had consumed and the
\* slot has not been marked or passed over since, -2 when the latest
\* tmUpdate pass has consumed a flag that stood for two or more expiries
\* and the slot has not been marked since, 0 otherwise.
tmUpdateTask(func, period_ms) ==
    LET i == FindTask(tasks, func, 0) IN
    /\ tasks' = IF i >= 0 THEN [tasks EXCEPT ![i] = UpdatedTask(tasks[i], period_ms)]
                ELSE tasks
    /\ taskAge' = IF i >= 0 THEN [taskAge EXCEPT ![i] = 0] ELSE taskAge
    /\ last' = Obs("UpdateTask", func, IF i >= 0 THEN 0 ELSE -1, <<>>, 0, millis)
    /\ addRun' = -1
    /\ marks' = IF i >= 0 /\ marks[i] > 0 THEN [marks EXCEPT ![i] = -1] ELSE marks
    /\ UNCHANGED <<timers, millis, taskExecuted, ts, ticks, tinfo, tsAge>>

tmDeleteTask(func) ==
    LET i == FindTask(tasks, func, 0) IN
    /\ tasks' = IF i >= 0 THEN [tasks EXCEPT ![i] = DeletedTask(tasks[i])]
                ELSE tasks
    /\ taskAge' = IF i >= 0 THEN [taskAge EXCEPT ![i] = 0] ELSE taskAge
    /\ last' = Obs("DeleteTask", func, IF i >= 0 THEN 0 ELSE -1, <<>>, 0, millis)
    /\ addRun' = -1
    /\ marks' = IF i >= 0 THEN [marks EXCEPT ![i] = 0] ELSE marks
    /\ UNCHANGED <<timers, millis, taskExecuted, ts, ticks, tinfo, tsAge>>

\* ------------------------------------------------------------ tick
\* A tick that forgets to reload the countdown from the period.
TickSlot_NoReload(s) ==
    IF s.taskFunc # NULL /\ s.delay_ms > 0
    THEN IF s.delay_ms - 1 = 0
         THEN [s EXCEPT !.isReady = 1, !.delay_ms = 0]
         ELSE [s EXCEPT !.delay_ms = s.delay_ms - 1]
    ELSE s

\* A tick that counts the expiries in the ready field.
TickSlot_Counts(s) ==
    IF s.taskFunc # NULL /\ s.delay_ms > 0
    THEN IF s.delay_ms - 1 = 0
         THEN [s EXCEPT !.isReady = s.isReady + 1, !.delay_ms = s.period_ms]
         ELSE [s EXCEPT !.delay_ms = s.delay_ms - 1]
    ELSE s

\* The body of tmTick's loop for one slot.
TickSlot(s) ==
    IF s.taskFunc # NULL /\ s.delay_ms > 0
    THEN IF s.delay_ms - 1 = 0
         THEN [s EXCEPT !.isReady = 1, !.delay_ms = s.period_ms]
         ELSE [s EXCEPT !.delay_ms = s.delay_ms - 1]
    ELSE s

\* An expiry test with > in place of >=.
TimerExpired_Strict(tm, now) ==
    tm.active # 0 /\ Sub32(now, tm.start_time) > tm.delay

\* tmTimerProcess's test for one slot at clock value now.
TimerExpired(tm, now) ==
    tm.active # 0 /\ Sub32(now, tm.start_time) >= tm.delay

\* An expiry that frees the slot.
ProcessedTimer_Frees(tm, now) ==
    IF TimerExpired(tm, now) THEN [tm EXCEPT !.active = 0, !.callback = NULL]
    ELSE tm

\* An expiry that also stamps the slot with the clock.
ProcessedTimer_Restamps(tm, now) ==
    IF TimerExpired(tm, now) THEN [tm EXCEPT !.active = 0, !.start_time = now]
    ELSE tm

\* The slot tmTimerProcess leaves behind.
ProcessedTimer(tm, now) ==
    IF TimerExpired(tm, now) THEN [tm EXCEPT !.active = 0] ELSE tm

\* The callbacks tmTimerProcess invokes, in slot order from i on.
RECURSIVE TimerCalls(_, _, _)
TimerCalls(t, now, i) ==
    IF i = MAX_TIMERS THEN <<>>
    ELSE (IF TimerExpired(t[i], now) /\ t[i].callback # NULL
          THEN <<t[i].callback>> ELSE <<>>) \o TimerCalls(t, now, i + 1)

\* Timers processed after the clock increment instead of before it.
ProcessClock_AfterIncrement(now) == Inc32(now)

\* The clock value tmTimerProcess reads inside tmTick.
ProcessClock(now) == now

\* The clock value tmTick leaves behind.
TickClock(now) == Inc32(now)

\* Observation of one timer slot across a tick.
AgeCap == 2 * MaxDelay + 2
TickInfo(g, tm, now) ==
    IF g.clean
    THEN [g EXCEPT !.age = IF g.age < AgeCap THEN g.age + 1 ELSE g.age,
                   !.fired = IF TimerExpired(tm, now) /\ tm.callback # NULL
                             THEN g.fired + 1 ELSE g.fired]
    ELSE IF tm.active # 0 /\ ~TimerExpired(tm, now)
    THEN [g EXCEPT !.age = g.age + 1]
    ELSE NoInfo

\* tmTick marks slot s ready.
Expiring(s) == s.taskFunc # NULL /\ s.delay_ms > 0 /\ s.delay_ms - 1 = 0

TickMarks ==
    [i \in TaskIdx |->
        IF ~Expiring(tasks[i]) THEN marks[i]
        ELSE IF marks[i] < 0 THEN 1
        ELSE IF marks[i] < 2 THEN marks[i] + 1
        ELSE marks[i]]

\* What tmTick does to the program's state.
TickProgram ==
    /\ tasks' = [i \in TaskIdx |-> TickSlot(tasks[i])]
    /\ timers' = [i \in TimerIdx |-> ProcessedTimer(timers[i], ProcessClock(millis))]
    /\ millis' = TickClock(millis)
    /\ UNCHANGED <<taskExecuted, ts>>

tmTick ==
    /\ TickProgram
    /\ marks' = TickMarks
    /\ ticks' = ticks + 1
    /\ taskAge' = [i \in TaskIdx |->
                     IF tasks[i].taskFunc # NULL THEN taskAge[i] + 1 ELSE 0]
    /\ tinfo' = [i \in TimerIdx |->
                     TickInfo(tinfo[i], timers[i], ProcessClock(millis))]
    /\ tsAge' = tsAge + 1
    /\ last' = Obs("Tick", NULL, 0, TimerCalls(timers, ProcessClock(millis), 0), 0,
                   ProcessClock(millis))
    /\ addRun' = -1

\* ------------------------------------------------------------ update
\* A test that trusts the ready flag without looking at the callback.
Runnable_NoGuard(s) == s.isReady # 0

\* tmUpdate's test for one slot.
Runnable(s) == s.taskFunc # NULL /\ s.isReady # 0

\* The callbacks tmUpdate invokes, in slot order from i on.
RECURSIVE UpdateCalls(_, _)
UpdateCalls(t, i) ==
    IF i = MAX_TASKS THEN <<>>
    ELSE (IF Runnable(t[i]) THEN <<t[i].taskFunc>> ELSE <<>>)
         \o UpdateCalls(t, i + 1)

\* The value of the static local taskExecuted after the loop: it is set by
\* every task run and never cleared.
ExecutedAfter(executed, calls) == IF calls # <<>> THEN 1 ELSE executed

tmUpdate ==
    LET calls == UpdateCalls(tasks, 0)
        ex == ExecutedAfter(taskExecuted, calls) IN
    /\ tasks' = [i \in TaskIdx |->
                   IF Runnable(tasks[i]) THEN [tasks[i] EXCEPT !.isReady = 0]
                   ELSE tasks[i]]
    /\ taskExecuted' = ex
    /\ last' = Obs("Update", NULL, 0, calls, IF ex = 0 THEN 1 ELSE 0, millis)
    /\ addRun' = -1
    /\ marks' = [i \in TaskIdx |->
                   IF tasks[i].taskFunc # NULL /\ marks[i] = 2 THEN -2 ELSE 0]
    /\ UNCHANGED <<timers, millis, ts, ticks, taskAge, tinfo, tsAge>>

\* ------------------------------------------------------------ update, by statement
\* tmUpdate as the statements the tick interrupt can come between: the loop
\* test of line 87 ("test"), the store of line 88 ("clear"), the call of
\* line 89 ("call"), the callback's return and line 90 ("ret") and the idle
\* hook of lines 93-96 ("tail").  The test is one step: taskFunc is written
\* by the cooperative context only.  The tick can also come while the
\* callback runs, between "call" and "ret".
UpdatePcs == {"test", "clear", "call", "ret", "tail"}

\* A store that leaves the ready flag set.
ClearedSlot_Keep(s) == s

\* The slot after tasks[i].isReady = 0.
ClearedSlot(s) == [s EXCEPT !.isReady = 0]

\* A pass that clears the ready flag after the callback has returned.
CalledSlot_ClearsAfter(s) == [s EXCEPT !.isReady = 0]

\* The slot after tasks[i].taskFunc(): the callback leaves it alone.
CalledSlot(s) == s

\* The loop's i++ and its exit test.
Advance(c) ==
    IF c.i + 1 < MAX_TASKS
    THEN [c EXCEPT !.pc = "test", !.i = c.i + 1]
    ELSE [c EXCEPT !.pc = "tail", !.i = 0]

\* The callbacks held by the slots in q.
RECURSIVE FuncsOf(_)
FuncsOf(q) ==
    IF q = <<>> THEN <<>>
    ELSE <<tasks[Head(q)].taskFunc>> \o FuncsOf(Tail(q))

UpdateEnter ==
    /\ coop.pc = "idle"
    /\ coop' = [Outside EXCEPT !.pc = "test"]
    /\ last' = Obs("Enter", NULL, 0, <<>>, 0, millis)
    /\ addRun' = -1
    /\ UNCHANGED <<tasks, timers, millis, taskExecuted, ts, ticks,
                   taskAge, tinfo, tsAge, nops, marks, seen>>

UpdateTest ==
    /\ coop.pc = "test"
    /\ coop' = IF Runnable(tasks[coop.i]) THEN [coop EXCEPT !.pc = "clear"]
               ELSE Advance(coop)
    /\ UNCHANGED <<tasks, timers, millis, taskExecuted, ts, last, ticks,
                   taskAge, tinfo, tsAge, addRun, nops, marks, seen>>

UpdateClear ==
    /\ coop.pc = "clear"
    /\ tasks' = [tasks EXCEPT ![coop.i] = ClearedSlot(tasks[coop.i])]
    /\ coop' = [coop EXCEPT !.pc = "call"]
    /\ UNCHANGED <<timers, millis, taskExecuted, ts, last, ticks,
                   taskAge, tinfo, tsAge, addRun, nops, marks, seen>>

UpdateCall ==
    /\ coop.pc = "call"
    /\ coop' = [coop EXCEPT !.pc = "ret", !.calls = Append(coop.calls, coop.i)]
    /\ last' = Obs("Call", tasks[coop.i].taskFunc, 0,
                   <<tasks[coop.i].taskFunc>>, 0, millis)
    /\ seen' = [seen EXCEPT !.owed[coop.i] = FALSE, !.late[coop.i] = 0]
    /\ UNCHANGED <<tasks, timers, millis, taskExecuted, ts, ticks, taskAge,
                   tinfo, tsAge, addRun, nops, marks>>

UpdateReturn ==
    /\ coop.pc = "ret"
    /\ tasks' = [tasks EXCEPT ![coop.i] = CalledSlot(tasks[coop.i])]
    /\ taskExecuted' = 1
    /\ coop' = Advance(coop)
    /\ UNCHANGED <<timers, millis, ts, last, ticks, taskAge, tinfo, tsAge,
                   addRun, nops, marks, seen>>

UpdateTail ==
    /\ coop.pc = "tail"
    /\ coop' = Outside
    /\ last' = Obs("Update", NULL, 0, FuncsOf(coop.calls),
                   IF taskExecuted = 0 THEN 1 ELSE 0, millis)
    /\ seen' = [seen EXCEPT !.late = [i \in TaskIdx |->
                    IF ~seen.owed[i] THEN 0
                    ELSE IF seen.late[i] < 2 THEN seen.late[i] + 1
                    ELSE seen.late[i]]]
    /\ UNCHANGED <<tasks, timers, millis, taskExecuted, ts, ticks, taskAge,
                   tinfo, tsAge, addRun, nops, marks>>

\* tmTick as the interrupt that preempts the cooperative context, with
\* what is seen kept and the run-long counters of the observation state
\* left alone.
IsrTick ==
    LET invoked == /\ coop.f # NULL
                   /\ \E i \in TimerIdx :
                         /\ TimerExpired(timers[i], ProcessClock(millis))
                         /\ timers[i].callback = coop.f
    IN
    /\ TickProgram
    /\ last' = Obs("Tick", NULL, 0, TimerCalls(timers, ProcessClock(millis), 0), 0,
                   ProcessClock(millis))
    /\ seen' = [seen EXCEPT
                  !.owed = [i \in TaskIdx |-> seen.owed[i] \/ Expiring(tasks[i])],
                  !.late = [i \in TaskIdx |->
                              IF seen.owed[i] THEN seen.late[i] ELSE 0],
                  !.fired = IF invoked /\ seen.fired < 2 THEN seen.fired + 1
                            ELSE seen.fired,
                  !.early = \/ seen.early
                            \/ invoked /\ coop.pc = "s_start" /\ coop.d >= 1]
    /\ addRun' = -1
    /\ UNCHANGED <<coop, ticks, taskAge, tinfo, tsAge, nops, marks>>

\* ------------------------------------------------------------ delay helper
\* A delay test with > in place of >=.
DelayPassed_Strict(now, timestamp, delay) == Sub32(now, timestamp) > delay

\* tmDelay_ms's test.
DelayPassed(now, timestamp, delay) == Sub32(now, timestamp) >= delay

tmDelay_ms(delay) ==
    LET hit == DelayPassed(millis, ts, delay) IN
    /\ ts' = IF hit THEN millis ELSE ts
    /\ tsAge' = IF hit THEN 0 ELSE tsAge
    /\ last' = Obs("Delay", NULL, IF hit THEN 1 ELSE 0, <<>>, 0, millis)
    /\ addRun' = -1
    /\ UNCHANGED <<tasks, timers, millis, taskExecuted, ticks, taskAge, tinfo,
                   marks>>

\* ------------------------------------------------------------ timers
\* tmTimerStartOnce's and tmTimerDelete's first scan: the first slot from i
\* on whose callback equals func (pointers only are compared), or -1.
RECURSIVE FindTimer(_, _, _)
FindTimer(t, func, i) ==
    IF i = MAX_TIMERS THEN -1
    ELSE IF t[i].callback = func THEN i
    ELSE FindTimer(t, func, i + 1)

\* A re-arm that restarts the timer even when it is already active.
RearmedTimer_Restart(tm, delay_ms, now) ==
    [tm EXCEPT !.delay = delay_ms, !.active = 1, !.start_time = now]

\* The slot tmTimerStartOnce leaves behind when it finds func in it.
RearmedTimer(tm, delay_ms, now) ==
    IF tm.active = 0
    THEN [tm EXCEPT !.delay = delay_ms, !.active = 1, !.start_time = now]
    ELSE [tm EXCEPT !.delay = delay_ms]

\* The slot tmTimerStartOnce writes into a free slot.
NewTimer(delay_ms, func, now) ==
    [active |-> 1, start_time |-> now, delay |-> delay_ms, callback |-> func]

\* The slot tmTimerDelete leaves behind.
DeletedTimer(tm) == [tm EXCEPT !.callback = NULL]

tmTimerStartOnce(delay_ms, func) ==
    LET i == FindTimer(timers, func, 0)
        j == FindTimer(timers, NULL, 0) IN
    /\ timers' = IF i >= 0
                 THEN [timers EXCEPT ![i] = RearmedTimer(timers[i], delay_ms, millis)]
                 ELSE IF j >= 0
                 THEN [timers EXCEPT ![j] = NewTimer(delay_ms, func, millis)]
                 ELSE timers
    /\ tinfo' = IF i >= 0
                THEN [tinfo EXCEPT ![i] =
                        IF timers[i].active = 0 THEN NoInfo
                        ELSE [tinfo[i] EXCEPT
                                !.rearmAge = tinfo[i].age,
                                !.early = tinfo[i].age < timers[i].delay,
                                !.clean = FALSE, !.fired = 0]]
                ELSE IF j >= 0
                THEN [tinfo EXCEPT ![j] = [NoInfo EXCEPT !.clean = TRUE]]
                ELSE tinfo
    /\ last' = Obs("StartOnce", func, IF i >= 0 \/ j >= 0 THEN 0 ELSE -1, <<>>, 0,
                   millis)
    /\ addRun' = -1
    /\ UNCHANGED <<tasks, millis, taskExecuted, ts, ticks, taskAge, tsAge, marks>>

tmTimerDelete(func) ==
    LET i == FindTimer(timers, func, 0) IN
    /\ timers' = IF i >= 0 THEN [timers EXCEPT ![i] = DeletedTimer(timers[i])]
                 ELSE timers
    /\ tinfo' = IF i >= 0
                THEN [tinfo EXCEPT ![i] =
                        IF timers[i].active = 0 THEN NoInfo
                        ELSE [tinfo[i] EXCEPT !.clean = FALSE, !.fired = 0]]
                ELSE tinfo
    /\ last' = Obs("TimerDelete", func, IF i >= 0 THEN 0 ELSE -1, <<>>, 0, millis)
    /\ addRun' = -1
    /\ UNCHANGED <<tasks, millis, taskExecuted, ts, ticks, taskAge, tsAge, marks>>

\* ------------------------------------------------------------ timers, by statement
\* tmTimerStartOnce as the statements the tick interrupt can come between.
\* The two scans are one step: they read callback fields only, which the
\* cooperative context alone writes.  When the callback is found: the store
\* of line 129 ("s_delay"), the test of line 130 ("s_test"), the stores of
\* lines 131 ("s_active") and 132 ("s_start").  When a free slot is taken:
\* the stores of lines 143 ("n_active"), 144 ("n_start"), 145 ("n_delay")
\* and 146 ("n_callback"), in the order of the source.
StartPcs == {"s_delay", "s_test", "s_active", "s_start",
             "n_active", "n_start", "n_delay", "n_callback"}

\* What a statement of tmTimerStartOnce leaves alone besides the timer table,
\* the position and the record of the last operation.
StartFrame ==
    UNCHANGED <<tasks, millis, taskExecuted, ts, ticks, taskAge, tinfo, tsAge,
                addRun, nops, marks, seen>>

\* return 0.
StartReturns ==
    /\ coop' = [coop EXCEPT !.pc = "idle"]
    /\ last' = Obs("StartOnce", coop.f, 0, <<>>, 0, millis)

\* The statement at pc stores v in field fld of the slot and goes to next.
StartStores(pc, fld, v, next) ==
    /\ coop.pc = pc
    /\ timers' = [timers EXCEPT ![coop.i][fld] = v]
    /\ coop' = [coop EXCEPT !.pc = next]
    /\ UNCHANGED last
    /\ StartFrame

StartEnter(delay_ms, func) ==
    LET i == FindTimer(timers, func, 0)
        j == FindTimer(timers, NULL, 0) IN
    /\ coop.pc = "idle"
    /\ coop' = IF i >= 0
               THEN [Outside EXCEPT !.pc = "s_delay", !.i = i,
                                    !.f = func, !.d = delay_ms]
               ELSE IF j >= 0
               THEN [Outside EXCEPT !.pc = "n_active", !.i = j,
                                    !.f = func, !.d = delay_ms]
               ELSE Outside
    /\ last' = IF i >= 0 \/ j >= 0 THEN Obs("Enter", func, 0, <<>>, 0, millis)
               ELSE Obs("StartOnce", func, -1, <<>>, 0, millis)
    /\ seen' = [seen EXCEPT !.fired = 0, !.early = FALSE]
    /\ UNCHANGED <<tasks, timers, millis, taskExecuted, ts, ticks, taskAge,
                   tinfo, tsAge, addRun, nops, marks>>

StartWriteDelay == StartStores("s_delay", "delay", coop.d, "s_test")

StartTestActive ==
    /\ coop.pc = "s_test"
    /\ IF timers[coop.i].active = 0
       THEN coop' = [coop EXCEPT !.pc = "s_active"] /\ UNCHANGED last
       ELSE StartReturns
    /\ UNCHANGED timers
    /\ StartFrame

StartWriteActive == StartStores("s_active", "active", 1, "s_start")

StartWriteStart ==
    /\ coop.pc = "s_start"
    /\ timers' = [timers EXCEPT ![coop.i].start_time = millis]
    /\ StartReturns
    /\ StartFrame

NewWriteActive == StartStores("n_active", "active", 1, "n_start")

NewWriteStart == StartStores("n_start", "start_time", millis, "n_delay")

NewWriteDelay == StartStores("n_delay", "delay", coop.d, "n_callback")

NewWriteCallback ==
    /\ coop.pc = "n_callback"
    /\ timers' = [timers EXCEPT ![coop.i].callback = coop.f]
    /\ StartReturns
    /\ StartFrame

\* ------------------------------------------------------------ specifications
\* The entry points as a caller honouring the contract uses them: with
\* callbacks that are not null.
AddTask == \E f \in Funcs, p \in Periods : tmAddTask(f, p)
UpdateTask == \E f \in Funcs, p \in Periods : tmUpdateTask(f, p)
DeleteTask == \E f \in Funcs : tmDeleteTask(f)
Update == tmUpdate
DelayElapsed == \E d \in 0 .. (Modulus - 1) : tmDelay_ms(d)
StartOnce == \E d \in Delays, f \in TimerFuncs : tmTimerStartOnce(d, f)
TimerDelete == \E f \in TimerFuncs : tmTimerDelete(f)

\* The entry points with any argument, a null callback included.
AddTaskAny == \E f \in Funcs \cup {NULL}, p \in Periods : tmAddTask(f, p)
UpdateTaskAny == \E f \in Funcs \cup {NULL}, p \in Periods : tmUpdateTask(f, p)
DeleteTaskAny == \E f \in Funcs \cup {NULL} : tmDeleteTask(f)
StartOnceAny ==
    \E d \in Delays, f \in TimerFuncs \cup {NULL} : tmTimerStartOnce(d, f)
TimerDeleteAny == \E f \in TimerFuncs \cup {NULL} : tmTimerDelete(f)

\* The task side: the task table, the tick and the update pass.
TaskTick == ticks < TaskTicks /\ tmTick

NextTasks ==
    \/ AddTask /\ UNCHANGED <<nops, coop, seen>>
    \/ UpdateTask /\ UNCHANGED <<nops, coop, seen>>
    \/ DeleteTask /\ UNCHANGED <<nops, coop, seen>>
    \/ TaskTick /\ UNCHANGED <<nops, coop, seen>>
    \/ Update /\ UNCHANGED <<nops, coop, seen>>

SpecTasks == Init /\ [][NextTasks]_vars

\* The timer side: the timer table, the tick and the delay helper, run past
\* one wraparound of the clock.
TimerTick == ticks < MaxTicks /\ tmTick

NextTimers ==
    \/ StartOnce /\ UNCHANGED <<nops, coop, seen>>
    \/ TimerDelete /\ UNCHANGED <<nops, coop, seen>>
    \/ TimerTick /\ UNCHANGED <<nops, coop, seen>>
    \/ DelayElapsed /\ UNCHANGED <<nops, coop, seen>>

SpecTimers == Init /\ [][NextTimers]_vars

\* The task side with preemption: tmTick may run between any two statements
\* of tmUpdate and while a callback runs; tasks are added and deleted between
\* passes, which ends what was owed to the slot that is changed.
Between ==
    /\ coop.pc = "idle"
    /\ seen' = [seen EXCEPT
                  !.owed = [i \in TaskIdx |->
                              seen.owed[i] /\ tasks'[i] = tasks[i]],
                  !.late = [i \in TaskIdx |->
                              IF tasks'[i] = tasks[i] THEN seen.late[i] ELSE 0]]
    /\ UNCHANGED <<nops, coop>>

NextUpdateSteps ==
    \/ AddTask /\ Between
    \/ DeleteTask /\ Between
    \/ IsrTick
    \/ UpdateEnter
    \/ UpdateTest
    \/ UpdateClear
    \/ UpdateCall
    \/ UpdateReturn
    \/ UpdateTail

SpecUpdateSteps == Init /\ [][NextUpdateSteps]_vars

\* The same for a table that is only filled, with the tick interrupt coming
\* for ever and the main loop calling tmUpdate for ever (callbacks return).
UpdateRuns ==
    \/ UpdateEnter
    \/ UpdateTest
    \/ UpdateClear
    \/ UpdateCall
    \/ UpdateReturn
    \/ UpdateTail

NextFairSteps ==
    \/ AddTask /\ Between
    \/ IsrTick
    \/ UpdateRuns

FairUpdateSteps ==
    Init /\ [][NextFairSteps]_vars /\ WF_vars(IsrTick) /\ WF_vars(UpdateRuns)

\* The timer side with preemption: tmTick may run between any two statements
\* of tmTimerStartOnce; tmTimerDelete is called between such calls.
StartOnceEnter == \E d \in Delays, f \in TimerFuncs : StartEnter(d, f)

NextStartSteps ==
    \/ StartOnceEnter
    \/ StartWriteDelay
    \/ StartTestActive
    \/ StartWriteActive
    \/ StartWriteStart
    \/ NewWriteActive
    \/ NewWriteStart
    \/ NewWriteDelay
    \/ NewWriteCallback
    \/ coop.pc = "idle" /\ TimerDelete /\ UNCHANGED <<nops, coop, seen>>
    \/ IsrTick

SpecStartSteps == Init /\ [][NextStartSteps]_vars

\* Every operation with every argument, in every order, for runs of at most
\* MaxOps operations.
Counted == nops < MaxOps /\ nops' = nops + 1 /\ UNCHANGED <<coop, seen>>

Next ==
    \/ Counted /\ AddTaskAny
    \/ Counted /\ UpdateTaskAny
    \/ Counted /\ DeleteTaskAny
    \/ Counted /\ tmTick
    \/ Counted /\ Update
    \/ Counted /\ DelayElapsed
    \/ Counted /\ StartOnceAny
    \/ Counted /\ TimerDeleteAny

Spec == Init /\ [][Next]_vars

\* ------------------------------------------------------------ claims
\* Some occupied task slot is ready.
SomeTaskReady == \E i \in TaskIdx : tasks[i].taskFunc # NULL /\ tasks[i].isReady # 0

\* C1: every Update call made while no occupied task slot is ready invokes
\* the idle hook exactly once, and every Update call made while some occupied
\* slot is ready does not invoke it, also after an earlier pass ran a task.
C1_IdleHookOnEveryQuietPass ==
    [][last'.op = "Update" => last'.idle = (IF SomeTaskReady THEN 0 ELSE 1)]_vars

Range(q) == {q[k] : k \in 1 .. Len(q)}

\* C3: a task added with period N >= 1 is not ready before N ticks have
\* passed; a Tick marks it ready exactly when the number of ticks since
\* AddTask is a multiple of N, whatever Update did in between; an Update
\* that finds it ready invokes it and clears ready.
C3_PeriodicFiring ==
    [][\A i \in TaskIdx :
          /\ tasks'[i].taskFunc # NULL /\ tasks'[i].period_ms >= 1
                /\ taskAge'[i] < tasks'[i].period_ms
             => tasks'[i].isReady = 0
          /\ last'.op = "Tick" /\ tasks[i].taskFunc # NULL /\ tasks[i].period_ms >= 1
             => /\ taskAge'[i] = taskAge[i] + 1
                /\ tasks'[i].isReady =
                      IF taskAge'[i] % tasks[i].period_ms = 0 THEN 1
                      ELSE tasks[i].isReady
          /\ last'.op = "Update" /\ tasks[i].taskFunc # NULL /\ tasks[i].isReady # 0
             => /\ tasks[i].taskFunc \in Range(last'.calls)
                /\ tasks'[i].isReady = 0
                /\ taskAge'[i] = taskAge[i]
      ]_vars

\* A task of period 2 marked ready by the fourth tick after its AddTask,
\* after an earlier Update has already run a task.
C3_Witness ==
    /\ last.op = "Tick"
    /\ taskExecuted = 1
    /\ \E i \in TaskIdx :
          /\ tasks[i].taskFunc # NULL
          /\ tasks[i].period_ms = 2
          /\ taskAge[i] = 4
          /\ tasks[i].isReady = 1

\* C5: from an empty table, MAX_TASKS consecutive AddTask calls with
\* distinct non-null callbacks return 0, 1, ..., MAX_TASKS-1 in that order
\* and install the callback there; the next AddTask returns -1 and leaves
\* the table unchanged.
C5_CapacityThenFull ==
    [][last'.op = "AddTask" /\ addRun' >= 1 =>
          IF addRun' <= MAX_TASKS
          THEN /\ last'.ret = addRun' - 1
               /\ tasks'[addRun' - 1].taskFunc = last'.f
               /\ \A j \in TaskIdx : j # addRun' - 1 => tasks'[j] = tasks[j]
          ELSE /\ last'.ret = -1
               /\ tasks' = tasks
      ]_vars

\* The call after MAX_TASKS successful ones has failed.
C5_Witness == addRun = MAX_TASKS + 1 /\ last.op = "AddTask" /\ last.ret = -1

\* The occupied slots holding callback f, and the lowest of them.
Holding(t, f) == {i \in TaskIdx : f # NULL /\ t[i].taskFunc = f}

Lowest(S) == CHOOSE i \in S : \A j \in S : i <= j

FreeTaskSlots(t) == {i \in TaskIdx : t[i].taskFunc = NULL}

\* C6: UpdateTask(f, p) and DeleteTask(f) change only the lowest-index
\* occupied slot holding f (a second slot holding the same f keeps its
\* period, countdown and ready flag), and the AddTask that follows a
\* successful DeleteTask returns the lowest free index.
C6_FirstMatchOnly ==
    [][/\ last'.op = "UpdateTask" /\ Holding(tasks, last'.f) # {} =>
            \A p \in Periods :
                tmUpdateTask(last'.f, p) =>
                    /\ tasks' = [tasks EXCEPT ![Lowest(Holding(tasks, last'.f))] =
                                   [taskFunc |-> last'.f, period_ms |-> p,
                                    delay_ms |-> p, isReady |-> 0]]
                    /\ last'.ret = 0
       /\ last'.op = "DeleteTask" /\ Holding(tasks, last'.f) # {} =>
            /\ tasks' = [tasks EXCEPT
                           ![Lowest(Holding(tasks, last'.f))].taskFunc = NULL]
            /\ last'.ret = 0
       /\ last.op = "DeleteTask" /\ last.ret = 0 /\ last'.op = "AddTask" =>
            /\ FreeTaskSlots(tasks) # {}
            /\ last'.ret = Lowest(FreeTaskSlots(tasks))
      ]_vars

\* DeleteTask(f) has freed slot 0 while slot 1 still holds the same f, ready.
C6_Witness ==
    /\ last.op = "DeleteTask"
    /\ last.ret = 0
    /\ tasks[0].taskFunc = NULL
    /\ tasks[1].taskFunc = last.f
    /\ tasks[1].isReady = 1

\* C2 as claimed (taken for D >= 1, where D ticks are at least one tick): a
\* timer installed by StartOnce(D, f) in a free slot, with f not in the table
\* before, has invoked f exactly once and is inactive after exactly D ticks
\* with no other timer operation on it.
C2_FiredAfterDTicks ==
    \A i \in TimerIdx :
        tinfo[i].clean /\ timers[i].delay >= 1
            /\ tinfo[i].age = timers[i].delay =>
                tinfo[i].fired = 1 /\ timers[i].active = 0

\* C2 as amended: such a timer has not invoked f and is still active after
\* up to D ticks, and from the (D+1)-th tick on it has invoked f exactly
\* once, is inactive and still holds f; further ticks never invoke f again.
C2_FiresOnceOnTickAfterD ==
    \A i \in TimerIdx :
        tinfo[i].clean =>
            /\ timers[i].callback # NULL
            /\ IF tinfo[i].age <= timers[i].delay
               THEN tinfo[i].fired = 0 /\ timers[i].active = 1
               ELSE tinfo[i].fired = 1 /\ timers[i].active = 0

\* A timer of delay 2 seen 5 = 2*2+1 ticks after StartOnce: fired once.
C2_Witness ==
    \E i \in TimerIdx :
        /\ tinfo[i].clean
        /\ timers[i].delay = 2
        /\ tinfo[i].age = 5
        /\ tinfo[i].fired = 1
        /\ timers[i].active = 0

\* The first slot holding callback f.
TimerHolding(t, f) == {i \in TimerIdx : f # NULL /\ t[i].callback = f}

\* Timer slot i expires in this step.
Expires(i) == timers[i].active # 0 /\ timers'[i].active = 0

\* A StartOnce(D2, f) that finds f in an active slot changes only the delay.
RearmFrame ==
    last'.op = "StartOnce" /\ TimerHolding(timers, last'.f) # {} =>
        LET i == Lowest(TimerHolding(timers, last'.f)) IN
        timers[i].active # 0 =>
            \A d \in Delays :
                tmTimerStartOnce(d, last'.f) =>
                    /\ timers' = [timers EXCEPT ![i].delay = d]
                    /\ last'.ret = 0

\* C4 as claimed: a StartOnce(D2, f) on a timer armed with delay D1, made
\* after k < D1 ticks, changes only its delay, and the timer then fires at
\* clock value start_ms + D2.
C4_FiresAtStartPlusD2 ==
    [][/\ RearmFrame
       /\ last'.op = "Tick" =>
            \A i \in TimerIdx :
                Expires(i) /\ timers[i].callback # NULL /\ tinfo[i].early =>
                    millis = (timers[i].start_time + timers[i].delay) % Modulus
      ]_vars

\* C4 as amended: a StartOnce(D2, f) on an active timer, k ticks after it was
\* armed, changes only its delay; the timer then expires in the first Tick
\* whose clock value c has c - start_ms >= D2, that is at clock value
\* start_ms + D2 when D2 >= k and at start_ms + k (the next Tick) when
\* D2 < k, and that Tick invokes the callback.
C4_FiresAtStartPlusMax ==
    [][/\ RearmFrame
       /\ last'.op = "Tick" =>
            \A i \in TimerIdx :
                timers[i].active # 0 =>
                    LET due == Max(timers[i].delay, tinfo[i].rearmAge) IN
                    /\ tinfo[i].age <= due
                    /\ Expires(i) <=> tinfo[i].age = due
                    /\ Expires(i) =>
                          /\ millis = (timers[i].start_time + due) % Modulus
                          /\ timers[i].callback # NULL =>
                                timers[i].callback \in Range(last'.calls)
      ]_vars

\* A timer of delay 3 re-armed after two ticks with a delay of 1: D2 < k < D1.
C4_Witness ==
    /\ last.op = "StartOnce"
    /\ last.ret = 0
    /\ \E i \in TimerIdx :
          /\ timers[i].callback = last.f
          /\ timers[i].active = 1
          /\ timers[i].delay = 1
          /\ tinfo[i].rearmAge = 2
          /\ tinfo[i].early
          /\ tinfo[i].age = 2

\* C7: whatever the clock value at which a timer was armed or a timestamp
\* was taken, also when the clock has wrapped since, the timer's expiry test
\* and the delay poll are decided by the number of ticks elapsed since then
\* alone: the timer is due exactly when that number has reached its delay,
\* the poll succeeds exactly when that number (modulo 2^w) has.
C7_WrapSafe ==
    /\ \A i \in TimerIdx :
          timers[i].active # 0 =>
              /\ (millis - timers[i].start_time) % Modulus = tinfo[i].age % Modulus
              /\ TimerExpired(timers[i], millis) <=> tinfo[i].age >= timers[i].delay
    /\ \A d \in 0 .. (Modulus - 1) :
          DelayPassed(millis, ts, d) <=> (tsAge % Modulus) >= d

\* A timer armed before the clock wrapped has fired after it, on time.
C7_Witness ==
    /\ last.op = "Tick"
    /\ \E i \in TimerIdx :
          /\ tinfo[i].clean
          /\ tinfo[i].fired = 1
          /\ tinfo[i].age = timers[i].delay + 1
          /\ timers[i].delay >= 1
          /\ timers[i].start_time + timers[i].delay >= Modulus
          /\ last.calls = <<timers[i].callback>>

\* C8: DelayElapsed(ts, d) returns true exactly when (clock - ts) mod 2^w
\* >= d, then sets ts to the clock and otherwise leaves it; it changes
\* neither the clock nor any task slot nor any timer slot.
C8_DelayFrame ==
    [][last'.op = "Delay" =>
          /\ last'.ret \in {0, 1}
          /\ \A d \in 0 .. (Modulus - 1) :
                tmDelay_ms(d) =>
                    (last'.ret = 1 <=> ((millis - ts) % Modulus) >= d)
          /\ ts' = IF last'.ret = 1 THEN millis ELSE ts
          /\ millis' = millis
          /\ tasks' = tasks
          /\ timers' = timers
          /\ taskExecuted' = taskExecuted
      ]_vars

\* A successful poll made while a task and a timer are registered.
C8_Witness ==
    /\ last.op = "Delay"
    /\ last.ret = 1
    /\ ts = millis
    /\ millis >= 1
    /\ \E i \in TaskIdx : tasks[i].taskFunc # NULL
    /\ \E i \in TimerIdx : timers[i].callback # NULL /\ timers[i].active = 1

\* C9: UpdateTask(f, p) and DeleteTask(f) with no occupied task slot holding
\* f, and timer Delete(f) with no occupied timer slot holding f, return -1
\* and leave their table unchanged; they return 0 only when an occupied slot
\* holds f.
C9_NotFoundIsAnError ==
    [][/\ last'.op \in {"UpdateTask", "DeleteTask"} =>
            IF \E i \in TaskIdx :
                  tasks[i].taskFunc # NULL /\ tasks[i].taskFunc = last'.f
            THEN last'.ret = 0
            ELSE last'.ret = -1 /\ tasks' = tasks
       /\ last'.op = "TimerDelete" =>
            IF \E i \in TimerIdx :
                  timers[i].callback # NULL /\ timers[i].callback = last'.f
            THEN last'.ret = 0
            ELSE last'.ret = -1 /\ timers' = timers
      ]_vars

\* C10: the clock equals the number of completed Tick calls modulo 2^w; a
\* Tick increments it by exactly 1 after the timers were processed against
\* its old value; no other operation changes it.
C10_ClockCountsTicks ==
    /\ millis = ticks % Modulus
    /\ [][/\ millis' = ticks' % Modulus
          /\ last'.op = "Tick" =>
                /\ ticks' = ticks + 1
                /\ millis' = (millis + 1) % Modulus
                /\ last'.now = millis
                /\ \A i \in TimerIdx :
                      Expires(i) <=>
                          /\ timers[i].active # 0
                          /\ (millis - timers[i].start_time) % Modulus
                                >= timers[i].delay
          /\ last'.op # "Tick" => millis' = millis /\ ticks' = ticks
         ]_vars

\* The second Tick has fired a one-shot callback against clock value 1.
C10_Witness ==
    /\ last.op = "Tick"
    /\ last.calls # <<>>
    /\ last.now = 1
    /\ millis = 2
    /\ ticks = 2

\* A step of the cooperative context inside tmUpdate.
UpdateStep == coop' # coop /\ (coop.pc \in UpdatePcs \/ coop'.pc \in UpdatePcs)

\* The position after slot coop.i has been dealt with.
PassMovesOn ==
    IF coop.i + 1 < MAX_TASKS
    THEN coop'.pc = "test" /\ coop'.i = coop.i + 1
    ELSE coop'.pc = "tail"

\* q is strictly increasing.
Increasing(q) == \A a, b \in 1 .. Len(q) : a < b => q[a] < q[b]

\* C11: one Update call is one pass over the task table in index order; it
\* invokes exactly once the callback of every slot that is occupied and
\* ready when the pass reaches it, after clearing that slot's ready flag,
\* invokes no callback of a free or not ready slot, and changes no period,
\* countdown or callback reference, nor the clock, nor the timer table.
C11_OnePassInIndexOrder ==
    [][UpdateStep =>
          /\ millis' = millis
          /\ timers' = timers
          /\ \A k \in TaskIdx :
                /\ tasks'[k].taskFunc = tasks[k].taskFunc
                /\ tasks'[k].period_ms = tasks[k].period_ms
                /\ tasks'[k].delay_ms = tasks[k].delay_ms
                /\ k # coop.i \/ coop.pc # "clear" => tasks'[k] = tasks[k]
          /\ coop.pc = "idle" =>
                coop'.pc = "test" /\ coop'.i = 0 /\ coop'.calls = <<>>
          /\ coop.pc = "test" =>
                /\ coop'.calls = coop.calls
                /\ IF tasks[coop.i].taskFunc # NULL /\ tasks[coop.i].isReady # 0
                   THEN coop'.pc = "clear" /\ coop'.i = coop.i
                   ELSE PassMovesOn
          /\ coop.pc = "clear" =>
                /\ tasks'[coop.i].isReady = 0
                /\ coop'.pc = "call" /\ coop'.i = coop.i
                /\ coop'.calls = coop.calls
          /\ coop.pc = "call" =>
                /\ tasks[coop.i].taskFunc # NULL
                /\ last'.op = "Call"
                /\ last'.calls = <<tasks[coop.i].taskFunc>>
                /\ coop'.calls = Append(coop.calls, coop.i)
                /\ coop'.pc = "ret" /\ coop'.i = coop.i
          /\ coop.pc = "ret" =>
                /\ coop'.calls = coop.calls
                /\ PassMovesOn
          /\ coop.pc = "tail" =>
                /\ coop'.pc = "idle"
                /\ Increasing(coop.calls)
                /\ last'.op = "Update"
                /\ Len(last'.calls) = Len(coop.calls)
                /\ \A k \in 1 .. Len(coop.calls) :
                      last'.calls[k] = tasks[coop.calls[k]].taskFunc
      ]_vars

\* A pass has returned after invoking the callback of every slot of the
\* table, in index order.
C11_Witness ==
    /\ coop.pc = "idle"
    /\ last.op = "Update"
    /\ Len(last.calls) = MAX_TASKS
    /\ \A k \in TaskIdx : last.calls[k + 1] = tasks[k].taskFunc

\* C12: Update invokes only callbacks held by an occupied slot whose own
\* countdown has expired since the slot was filled or updated, so a
\* callback deleted after Tick marked it ready is not invoked and the ready
\* flag DeleteTask leaves behind invokes nothing; AddTask leaves the slot
\* it fills not ready; Tick invokes only callbacks held by an active timer
\* slot, so a timer callback deleted while active is not invoked.
C12_DeletedNeverInvoked ==
    [][/\ last'.op = "Update" =>
            \A k \in 1 .. Len(last'.calls) :
                /\ last'.calls[k] # NULL
                /\ \E i \in TaskIdx :
                      /\ tasks[i].taskFunc = last'.calls[k]
                      /\ tasks[i].isReady # 0
                      /\ tasks[i].period_ms >= 1
                      /\ taskAge[i] >= tasks[i].period_ms
       /\ last'.op = "AddTask" /\ last'.ret >= 0 =>
            tasks'[last'.ret].isReady = 0
       /\ last'.op = "Tick" =>
            \A k \in 1 .. Len(last'.calls) :
                /\ last'.calls[k] # NULL
                /\ \E i \in TimerIdx :
                      /\ timers[i].callback = last'.calls[k]
                      /\ timers[i].active # 0
      ]_vars

\* An Update pass has invoked nothing while a slot freed by DeleteTask still
\* carries the ready flag Tick had set.
C12_Witness ==
    /\ last.op = "Update"
    /\ last.calls = <<>>
    /\ \E i \in TaskIdx : tasks[i].taskFunc = NULL /\ tasks[i].isReady # 0

\* The fields of some task slot, and of some timer slot, that this step
\* has changed.
TaskWrites ==
    {fld \in {"taskFunc", "period_ms", "delay_ms", "isReady"} :
        \E i \in TaskIdx : tasks'[i][fld] # tasks[i][fld]}

TimerWrites ==
    {fld \in {"active", "start_time", "delay", "callback"} :
        \E i \in TimerIdx : timers'[i][fld] # timers[i][fld]}

Mutators == {"AddTask", "UpdateTask", "DeleteTask", "StartOnce", "TimerDelete"}

\* C13 as claimed: AddTask, UpdateTask, DeleteTask, StartOnce and Delete,
\* called with a callback, change only callback references, periods and
\* delays, never a task's countdown or ready flag nor a timer's active flag
\* or start time.
C13_MutatorsLeaveTickFields ==
    [][last'.op \in Mutators /\ last'.f # NULL =>
          /\ TaskWrites \subseteq {"taskFunc", "period_ms"}
          /\ TimerWrites \subseteq {"callback", "delay"}
      ]_vars

\* C13 as amended: Tick changes only countdowns and ready flags of tasks,
\* active flags of timers and the clock; DeleteTask and Delete change only
\* a callback reference; AddTask changes all four fields of one task slot,
\* UpdateTask the period, the countdown and the ready flag of one task
\* slot; StartOnce changes the delay alone of a timer it finds active, and
\* otherwise the delay, the active flag, the start time and (in a free
\* slot) the callback reference of one timer slot.
C13_WriteSets ==
    [][/\ last'.op = "Tick" =>
            /\ TaskWrites \subseteq {"delay_ms", "isReady"}
            /\ TimerWrites \subseteq {"active"}
       /\ last'.op = "DeleteTask" =>
            TaskWrites \subseteq {"taskFunc"} /\ TimerWrites = {}
       /\ last'.op = "TimerDelete" =>
            TimerWrites \subseteq {"callback"} /\ TaskWrites = {}
       /\ last'.op = "AddTask" =>
            /\ TimerWrites = {}
            /\ \A i \in TaskIdx : i # last'.ret => tasks'[i] = tasks[i]
       /\ last'.op = "UpdateTask" =>
            /\ TimerWrites = {}
            /\ TaskWrites \subseteq {"period_ms", "delay_ms", "isReady"}
            /\ Cardinality({i \in TaskIdx : tasks'[i] # tasks[i]}) <= 1
       /\ last'.op = "StartOnce" =>
            /\ TaskWrites = {}
            /\ Cardinality({i \in TimerIdx : timers'[i] # timers[i]}) <= 1
            /\ \A i \in TimerIdx :
                  timers[i].active # 0 /\ timers[i].callback = last'.f =>
                      TimerWrites \subseteq {"delay"}
      ]_vars

\* UpdateTask has just cleared a ready flag that Tick had set: a field
\* written from both sides.
C13_Witness ==
    /\ last.op = "UpdateTask"
    /\ last.ret = 0
    /\ last.f # NULL
    /\ \E i \in TaskIdx :
          tasks[i].taskFunc = last.f /\ marks[i] = -1 /\ tasks[i].isReady = 0

\* C14: with Tick allowed between any two statements of StartOnce, a
\* StartOnce(D, f) that has returned success never leaves f's slot occupied
\* and inactive without f having been invoked since the call began, and f
\* is never invoked for a call with D >= 1 before that call has recorded
\* the clock.
C14_PreemptedStartOnceArms ==
    /\ ~seen.early
    /\ coop.pc = "idle" /\ coop.f # NULL =>
          \A i \in TimerIdx :
              timers[i].callback = coop.f /\ timers[i].active = 0 =>
                  seen.fired >= 1

C17_CountdownWithinPeriod ==
    \A i \in TaskIdx :
        tasks[i].taskFunc # NULL =>
            /\ tasks[i].delay_ms <= tasks[i].period_ms
            /\ tasks[i].delay_ms = 0 <=> tasks[i].period_ms = 0
            /\ tasks[i].period_ms = 0 => tasks[i].isReady = 0

\* A task of period 0 that has seen three ticks next to a task of period 1
\* that the same ticks have marked ready.
C17_Witness ==
    /\ last.op = "Tick"
    /\ \E i, j \in TaskIdx :
          /\ tasks[i].taskFunc # NULL
          /\ tasks[i].period_ms = 0
          /\ taskAge[i] >= 3
          /\ tasks[j].taskFunc # NULL
          /\ tasks[j].period_ms = 1
          /\ tasks[j].delay_ms = 1
          /\ tasks[j].isReady = 1

\* C18: AddTask and StartOnce called with a null callback return -1 and
\* leave the task table and the timer table unchanged.
C18_NullCallbackRejected ==
    [][last'.op \in {"AddTask", "StartOnce"} /\ last'.f = NULL =>
          /\ last'.ret = -1
          /\ tasks' = tasks
          /\ timers' = timers
      ]_vars

\* The number of places of q that hold f.
Occurrences(q, f) == Cardinality({k \in 1 .. Len(q) : q[k] = f})

\* C19: the ready flag does not count.  An Update pass invokes the callback
\* of a slot once when its countdown has expired once or several times
\* since the previous pass and not at all when it has not expired since;
\* the pass leaves the slot not ready, so the expiries a flag stood for are
\* never invoked later.
C19_ReadyIsAFlag ==
    [][/\ \A i \in TaskIdx : tasks'[i].isReady \in {0, 1}
       /\ last'.op = "Tick" =>
            \A i \in TaskIdx :
                Expiring(tasks[i]) /\ tasks[i].isReady # 0 =>
                    tasks'[i].isReady = 1 /\ marks'[i] = 2
       /\ last'.op = "Update" =>
            /\ \A f \in Funcs :
                  Occurrences(last'.calls, f) =
                      Cardinality({i \in TaskIdx :
                                      tasks[i].taskFunc = f /\ marks[i] >= 1})
            /\ \A i \in TaskIdx :
                  tasks'[i].taskFunc # NULL =>
                      tasks'[i].isReady = 0 /\ marks'[i] <= 0
      ]_vars

\* An Update pass has invoked once a callback whose countdown had expired
\* at least twice since the previous pass.
C19_Witness ==
    /\ last.op = "Update"
    /\ \E i \in TaskIdx :
          /\ tasks[i].taskFunc # NULL
          /\ marks[i] = -2
          /\ tasks[i].isReady = 0
          /\ Occurrences(last.calls, tasks[i].taskFunc) = 1

\* The callback of slot i has just been started.
JustInvoked(i) ==
    /\ last.op = "Call"
    /\ coop.calls # <<>>
    /\ coop.calls[Len(coop.calls)] = i

\* C20: with Tick allowed between any two steps of Update, the tick coming
\* for ever and Update being called for ever, a task with period_ms >= 1
\* that stays registered is invoked again and again, every ready mark set
\* by Tick is followed by an invocation of the task, and that invocation
\* comes before the pass after the current one has returned.
C20_ReadyMarkIsServed ==
    /\ [](\A i \in TaskIdx : seen.late[i] <= 1)
    /\ \A i \in TaskIdx : seen.owed[i] ~> ~seen.owed[i]
    /\ \A i \in TaskIdx :
          [](tasks[i].taskFunc # NULL /\ tasks[i].period_ms >= 1
                => <>JustInvoked(i))

\* A ready mark set while the pass had already gone past its slot, still
\* owed when that pass has returned.
C20_Witness ==
    /\ coop.pc = "idle"
    /\ last.op = "Update"
    /\ \E i \in TaskIdx :
          /\ seen.owed[i]
          /\ seen.late[i] = 1
          /\ tasks[i].isReady = 1

====
